---------------------------- MODULE Spec2Model ----------------------------
(***************************************************************************)
(* Model of backend/server.py: the simulation engine (BattlefieldSimulator *)
(* .generate_signal_update and .assess_threat), the websocket connection   *)
(* manager, the per-subscriber loop of websocket_battlefield, and the API  *)
(* routes on the emitter collection (emitters, scenarios, threats).        *)
(*                                                                         *)
(* Number representation.  The code computes on Python floats; the model   *)
(* computes on exact fixed-point integers:                                 *)
(*   - scores and confidences in thousandths       (1.0   is 1000),        *)
(*   - latitudes and longitudes in thousandths of a degree (0.01 is 10),   *)
(*   - frequencies in 1/20000 MHz, so that every value with four decimals  *)
(*     is an even number and the mean of two of them is exact              *)
(*     (5 MHz is 100000),                                                  *)
(*   - signal strength in dBm, time to impact in seconds.                  *)
(* None of the comparisons of the code (0.7, 0.4, 1.0) is within rounding  *)
(* distance of a value the score table can produce, so the fixed-point     *)
(* comparisons decide as the float comparisons do.                         *)
(*                                                                         *)
(* A Python dict is a TLA+ record; d["k"] on a missing key raises KeyError.*)
(***************************************************************************)
EXTENDS Integers, Sequences, FiniteSets, TLC

VARIABLES
    emitter,             \* the dict passed to a simulator method (pure-function runs)
    result,              \* what the last simulator call returned or raised
    sample_emitters,     \* the module-level list SAMPLE_EMITTERS (mutable in Python)
    active_connections,  \* manager.active_connections
    pc,                  \* position of each channel's websocket_battlefield task
    sent,                \* the last message handed to websocket.send_json, and to whom
    uuid_count,          \* number of uuid.uuid4() values drawn so far
    bc,                  \* the task running manager.broadcast: its iterator and its sends
    call,                \* the last manager.connect / manager.disconnect call and its outcome
    connected,           \* the channels that manager.connect has been called with
    db_emitters,         \* the documents of the collection db.emitters, in insertion order
    response,            \* the last request served by an API route and its response
    requests             \* number of API requests served so far

vars == <<emitter, result, sample_emitters, active_connections, pc, sent, uuid_count,
          bc, call, connected, db_emitters, response, requests>>

simVars == <<emitter, result>>
wsVars == <<sample_emitters, active_connections, pc, sent, uuid_count>>
regVars == <<bc, call, connected>>
apiVars == <<db_emitters, response, requests>>

-----------------------------------------------------------------------------
(* Bounds of the model *)

\* random.uniform(a, b) is sampled at a + (b - a) * k / NDraw, k = 0..NDraw.
NDraw == 2

\* The websocket channels that may connect are 1..NumChannels.
NumChannels == 2

\* The loops send at most MaxBatches batches in all.
MaxBatches == 3

\* manager.broadcast is called at most MaxBroadcasts times.
MaxBroadcasts == 2

\* The API routes serve at most MaxRequests requests.
MaxRequests == 3

-----------------------------------------------------------------------------
(* Python values *)

None == [type |-> "NoneType"]

Float(v) == [type |-> "float", value |-> v]

uuid4(n) == <<"uuid", n>>

Raise(exc, key) == [kind |-> "raise", exc |-> exc, key |-> key]

Min(a, b) == IF a <= b THEN a ELSE b

\* random.uniform(a, b): a + (b - a) * random.random(), sampled.
uniform(a, b) == { a + ((b - a) * k) \div NDraw : k \in 0..NDraw }

\* d.get(key, default)
get(d, key, default) == IF key \in DOMAIN d THEN d[key] ELSE default

-----------------------------------------------------------------------------
(* Fixed-point literals *)

\* whole.frac4 MHz (frac4 in 1/10000 MHz) in units of 1/20000 MHz
MHz(whole, frac4) == (whole * 10000 + frac4) * 2

\* whole.frac3 degrees in thousandths of a degree
Deg(whole, frac3) == whole * 1000 + frac3

-----------------------------------------------------------------------------
(* SAMPLE_EMITTERS: the fields of each literal that the modelled code reads. *)
(* No sample emitter has an "id" or a "confidence" key.                      *)

SAMPLE_EMITTERS == <<
    [name |-> "KD Lekiu - TLDM Frigate",
     threat_level |-> "low", affiliation |-> "friendly",
     frequency_min |-> MHz(8500, 0), frequency_max |-> MHz(9500, 0),
     latitude |-> Deg(5, 500), longitude |-> Deg(100, 0)],
    [name |-> "KD Gempita - Lumut EW Station",
     threat_level |-> "low", affiliation |-> "friendly",
     frequency_min |-> MHz(50, 0), frequency_max |-> MHz(3800, 0),
     latitude |-> Deg(4, 240), longitude |-> Deg(100, 620)],
    [name |-> "MMEA Kimanis - OPV",
     threat_level |-> "low", affiliation |-> "friendly",
     frequency_min |-> MHz(9200, 0), frequency_max |-> MHz(9500, 0),
     latitude |-> Deg(5, 750), longitude |-> Deg(100, 250)],
    [name |-> "ATR-72 MPA - En Route",
     threat_level |-> "low", affiliation |-> "friendly",
     frequency_min |-> MHz(9300, 0), frequency_max |-> MHz(9500, 0),
     latitude |-> Deg(3, 130), longitude |-> Deg(101, 550)],
    [name |-> "MV Ocean Trader - Distress",
     threat_level |-> "medium", affiliation |-> "neutral",
     frequency_min |-> MHz(156, 8000), frequency_max |-> MHz(156, 8000),
     latitude |-> Deg(5, 650), longitude |-> Deg(100, 150)],
    [name |-> "Fast Attack Craft 1 - No AIS",
     threat_level |-> "critical", affiliation |-> "hostile",
     frequency_min |-> MHz(462, 0), frequency_max |-> MHz(467, 0),
     latitude |-> Deg(5, 620), longitude |-> Deg(100, 120)],
    [name |-> "Fast Attack Craft 2 - No AIS",
     threat_level |-> "critical", affiliation |-> "hostile",
     frequency_min |-> MHz(462, 0), frequency_max |-> MHz(467, 0),
     latitude |-> Deg(5, 680), longitude |-> Deg(100, 180)],
    [name |-> "SS Sunrise - Pirate Mothership",
     threat_level |-> "high", affiliation |-> "hostile",
     frequency_min |-> MHz(3, 5000), frequency_max |-> MHz(30, 0),
     latitude |-> Deg(5, 550), longitude |-> Deg(99, 950)],
    [name |-> "Xiang Yang Hong 06 - Research Vessel",
     threat_level |-> "high", affiliation |-> "unknown",
     frequency_min |-> MHz(12, 0), frequency_max |-> MHz(12, 0),
     latitude |-> Deg(4, 850), longitude |-> Deg(99, 750)],
    [name |-> "VLCC TI Europe - Radar Fault",
     threat_level |-> "low", affiliation |-> "neutral",
     frequency_min |-> MHz(9300, 0), frequency_max |-> MHz(9500, 0),
     latitude |-> Deg(3, 950), longitude |-> Deg(100, 350)],
    [name |-> "11 RAD - Pulau Bum Bum",
     threat_level |-> "low", affiliation |-> "friendly",
     frequency_min |-> MHz(225, 0), frequency_max |-> MHz(400, 0),
     latitude |-> Deg(4, 480), longitude |-> Deg(118, 680)],
    [name |-> "PASKAL Team - Zodiac Insert",
     threat_level |-> "low", affiliation |-> "friendly",
     frequency_min |-> MHz(300, 0), frequency_max |-> MHz(320, 0),
     latitude |-> Deg(4, 520), longitude |-> Deg(118, 720)],
    [name |-> "EC-725 Caracal - Overwatch",
     threat_level |-> "low", affiliation |-> "friendly",
     frequency_min |-> MHz(9000, 0), frequency_max |-> MHz(9500, 0),
     latitude |-> Deg(4, 550), longitude |-> Deg(118, 600)],
    [name |-> "Tanjung Labian Radar",
     threat_level |-> "low", affiliation |-> "friendly",
     frequency_min |-> MHz(2700, 0), frequency_max |-> MHz(2900, 0),
     latitude |-> Deg(4, 350), longitude |-> Deg(118, 400)],
    [name |-> "KFR Signal 1 - Baofeng Encrypted",
     threat_level |-> "critical", affiliation |-> "hostile",
     frequency_min |-> MHz(462, 5625), frequency_max |-> MHz(462, 5625),
     latitude |-> Deg(4, 460), longitude |-> Deg(118, 700)],
    [name |-> "KFR Pump Boat 1",
     threat_level |-> "critical", affiliation |-> "hostile",
     frequency_min |-> MHz(462, 0), frequency_max |-> MHz(467, 0),
     latitude |-> Deg(4, 440), longitude |-> Deg(118, 730)],
    [name |-> "KFR Pump Boat 2",
     threat_level |-> "critical", affiliation |-> "hostile",
     frequency_min |-> MHz(462, 0), frequency_max |-> MHz(467, 0),
     latitude |-> Deg(4, 450), longitude |-> Deg(118, 750)],
    [name |-> "Smuggler Burst Signal",
     threat_level |-> "high", affiliation |-> "hostile",
     frequency_min |-> MHz(446, 0), frequency_max |-> MHz(446, 5000),
     latitude |-> Deg(4, 500), longitude |-> Deg(118, 800)],
    [name |-> "DJI Mavic 3 - Recon Drone",
     threat_level |-> "high", affiliation |-> "hostile",
     frequency_min |-> MHz(2400, 0), frequency_max |-> MHz(2483, 0),
     latitude |-> Deg(4, 475), longitude |-> Deg(118, 670)],
    [name |-> "KD Mahawangsa - AOR",
     threat_level |-> "low", affiliation |-> "friendly",
     frequency_min |-> MHz(9200, 0), frequency_max |-> MHz(9500, 0),
     latitude |-> Deg(5, 700), longitude |-> Deg(112, 100)],
    [name |-> "FA-18D Hornet 1 - CAP",
     threat_level |-> "low", affiliation |-> "friendly",
     frequency_min |-> MHz(8500, 0), frequency_max |-> MHz(10500, 0),
     latitude |-> Deg(5, 950), longitude |-> Deg(111, 800)],
    [name |-> "FA-18D Hornet 2 - CAP",
     threat_level |-> "low", affiliation |-> "friendly",
     frequency_min |-> MHz(8500, 0), frequency_max |-> MHz(10500, 0),
     latitude |-> Deg(5, 900), longitude |-> Deg(111, 950)],
    [name |-> "KD Rencong - Future LCS",
     threat_level |-> "low", affiliation |-> "friendly",
     frequency_min |-> MHz(9000, 0), frequency_max |-> MHz(9500, 0),
     latitude |-> Deg(5, 750), longitude |-> Deg(112, 50)],
    [name |-> "Platform Duyong-A - PETRONAS",
     threat_level |-> "low", affiliation |-> "friendly",
     frequency_min |-> MHz(450, 0), frequency_max |-> MHz(470, 0),
     latitude |-> Deg(5, 720), longitude |-> Deg(111, 980)],
    [name |-> "CCG 5901 - Mega Cutter",
     threat_level |-> "critical", affiliation |-> "hostile",
     frequency_min |-> MHz(156, 0), frequency_max |-> MHz(174, 0),
     latitude |-> Deg(5, 850), longitude |-> Deg(112, 250)],
    [name |-> "Maritime Militia Vessel 1",
     threat_level |-> "high", affiliation |-> "hostile",
     frequency_min |-> MHz(9300, 0), frequency_max |-> MHz(9500, 0),
     latitude |-> Deg(5, 800), longitude |-> Deg(112, 180)],
    [name |-> "Maritime Militia Vessel 2",
     threat_level |-> "high", affiliation |-> "hostile",
     frequency_min |-> MHz(9300, 0), frequency_max |-> MHz(9500, 0),
     latitude |-> Deg(5, 820), longitude |-> Deg(112, 220)],
    [name |-> "Maritime Militia Vessel 3",
     threat_level |-> "high", affiliation |-> "hostile",
     frequency_min |-> MHz(9300, 0), frequency_max |-> MHz(9500, 0),
     latitude |-> Deg(5, 780), longitude |-> Deg(112, 200)],
    [name |-> "Maritime Militia Vessel 4",
     threat_level |-> "medium", affiliation |-> "hostile",
     frequency_min |-> MHz(156, 0), frequency_max |-> MHz(163, 0),
     latitude |-> Deg(5, 760), longitude |-> Deg(112, 150)],
    [name |-> "Maritime Militia Vessel 5",
     threat_level |-> "medium", affiliation |-> "hostile",
     frequency_min |-> MHz(156, 0), frequency_max |-> MHz(163, 0),
     latitude |-> Deg(5, 830), longitude |-> Deg(112, 280)],
    [name |-> "Maritime Militia Vessel 6",
     threat_level |-> "medium", affiliation |-> "hostile",
     frequency_min |-> MHz(156, 0), frequency_max |-> MHz(163, 0),
     latitude |-> Deg(5, 790), longitude |-> Deg(112, 300)],
    [name |-> "Type 052D Kunming - Destroyer",
     threat_level |-> "critical", affiliation |-> "hostile",
     frequency_min |-> MHz(2900, 0), frequency_max |-> MHz(3100, 0),
     latitude |-> Deg(6, 100), longitude |-> Deg(112, 600)],
    [name |-> "H-6K Elint Aircraft",
     threat_level |-> "critical", affiliation |-> "hostile",
     frequency_min |-> MHz(8000, 0), frequency_max |-> MHz(18000, 0),
     latitude |-> Deg(6, 250), longitude |-> Deg(112, 450)],
    [name |-> "Yaogan Satellite - Overhead",
     threat_level |-> "high", affiliation |-> "hostile",
     frequency_min |-> MHz(9500, 0), frequency_max |-> MHz(9800, 0),
     latitude |-> Deg(5, 800), longitude |-> Deg(112, 0)]
>>

-----------------------------------------------------------------------------
(* BattlefieldSimulator.assess_threat *)

threat_scores == [critical |-> 950, high |-> 750, medium |-> 500, low |-> 250]

\* Variant: the fallback of the lookup is the lowest score of the table.
\* Variant: the base score is weighted with the confidence of the detection.
base_score_by_confidence(e) ==
    (get(threat_scores, e["threat_level"], 500) * get(e, "confidence", 850)) \div 1000

base_score_low_default(e) == get(threat_scores, e["threat_level"], 250)

\* base_score = threat_scores.get(emitter["threat_level"], 0.5)
base_score(e) == get(threat_scores, e["threat_level"], 500)

\* if hostile: base_score *= 1.2   elif friendly: base_score *= 0.1
adjust_score(score, affiliation) ==
    IF affiliation = "hostile" THEN (score * 12) \div 10
    ELSE IF affiliation = "friendly" THEN score \div 10
    ELSE score

kill_chain_phases == <<"detection", "tracking", "engagement", "intercept">>

\* random.choice(seq): any element of seq
choice(seq) == { seq[i] : i \in 1..Len(seq) }

\* Variant: the choice is made among all four phases (no [:2] slice).
phase_unsliced(affiliation) ==
    IF affiliation = "hostile" THEN choice(kill_chain_phases)
    ELSE {"monitoring"}

\* the phases the code can pick for an affiliation
phase(affiliation) ==
    IF affiliation = "hostile" THEN choice(SubSeq(kill_chain_phases, 1, 2))
    ELSE {"monitoring"}

\* Variant: the upper band starts at 0.8, the threshold of critical_count.
actions_band_08(score) ==
    IF score > 800
    THEN <<"Activate ECM", "Deploy decoys", "Maneuver to minimize exposure">>
    ELSE IF score > 400
    THEN <<"Continue monitoring", "Prepare countermeasures">>
    ELSE <<"Track for intelligence", "Log to database">>

actions(score) ==
    IF score > 700
    THEN <<"Activate ECM", "Deploy decoys", "Maneuver to minimize exposure">>
    ELSE IF score > 400
    THEN <<"Continue monitoring", "Prepare countermeasures">>
    ELSE <<"Track for intelligence", "Log to database">>

\* Variant: the score is returned without the clamp.
threat_score_unclamped(score) == score

\* "threat_score": min(1.0, base_score)
threat_score(score) == Min(1000, score)

\* Variant: time to impact is given from 0.8 up only.
time_to_impact_08(score) ==
    IF score > 800 THEN { Float(t) : t \in uniform(30, 300) } ELSE {None}

\* the values "time_to_impact" can take
time_to_impact(score) ==
    IF score > 700 THEN { Float(t) : t \in uniform(30, 300) } ELSE {None}

\* The set of outcomes of assess_threat(emitter): one per random draw.
assess_threat(e) ==
    IF "threat_level" \notin DOMAIN e THEN {Raise("KeyError", "threat_level")}
    ELSE IF "affiliation" \notin DOMAIN e THEN {Raise("KeyError", "affiliation")}
    ELSE IF "name" \notin DOMAIN e THEN {Raise("KeyError", "name")}
    ELSE LET score == adjust_score(base_score(e), e["affiliation"]) IN
         { [kind |-> "return",
            value |-> [emitter_id |-> get(e, "id", <<"unknown">>),
                       emitter_name |-> e["name"],
                       threat_score |-> threat_score(score),
                       kill_chain_phase |-> p,
                       time_to_impact |-> t,
                       recommended_actions |-> actions(score)],
            arg |-> e]
           : p \in phase(e["affiliation"]), t \in time_to_impact(score) }


-----------------------------------------------------------------------------
(* BattlefieldSimulator.generate_signal_update *)

\* The five random.uniform draws of one call, in call order.
RandomDraws ==
    [variation : uniform(-20, 20),
     latitude  : uniform(-10, 10),
     longitude : uniform(-10, 10),
     signal    : uniform(-10, 10),
     frequency : uniform(-MHz(5, 0), MHz(5, 0))]

\* The keys the returned dict literal subscripts, in evaluation order.
required_keys ==
    <<"name", "latitude", "longitude", "frequency_min", "frequency_max",
      "affiliation", "threat_level">>

\* The first key of keys that e lacks, as a set (empty when e has them all).
first_missing(e, keys) ==
    { keys[i] : i \in { j \in 1..Len(keys) :
                          /\ keys[j] \notin DOMAIN e
                          /\ \A h \in 1..(j - 1) : keys[h] \in DOMAIN e } }

\* Variant: the drifted confidence is returned without the clamp.
confidence_unclamped(e, variation) == get(e, "confidence", 850) + variation

\* Variant: the division binds to frequency_max alone.
frequency_precedence(e, jitter) ==
    e["frequency_min"] + e["frequency_max"] \div 2 + jitter

\* min(1.0, emitter.get("confidence", 0.85) + variation)
confidence(e, variation) == Min(1000, get(e, "confidence", 850) + variation)

\* (emitter["frequency_min"] + emitter["frequency_max"]) / 2 + random.uniform(-5, 5)
frequency(e, jitter) == (e["frequency_min"] + e["frequency_max"]) \div 2 + jitter

\* The dict literal generate_signal_update returns, with the random draws rnd
\* and uuid4() = n (e has all of required_keys).
signal_update(e, rnd, n) ==
    [emitter_id |-> get(e, "id", uuid4(n)),
     name |-> e["name"],
     latitude |-> e["latitude"] + rnd.latitude,
     longitude |-> e["longitude"] + rnd.longitude,
     signal_strength |-> -50 + rnd.signal,
     frequency |-> frequency(e, rnd.frequency),
     confidence |-> confidence(e, rnd.variation),
     affiliation |-> e["affiliation"],
     threat_level |-> e["threat_level"]]

\* Variant: the drifted confidence is also stored in the emitter dict.
generate_signal_update_in_place(e, rnd, n) ==
    IF first_missing(e, required_keys) # {}
    THEN Raise("KeyError", CHOOSE k \in first_missing(e, required_keys) : TRUE)
    ELSE [kind |-> "return",
          value |-> signal_update(e, rnd, n),
          arg |-> [k \in (DOMAIN e) \cup {"confidence"} |->
                     IF k = "confidence" THEN confidence(e, rnd.variation) ELSE e[k]]]

\* generate_signal_update(emitter): raises KeyError on the first missing key,
\* else returns the dict.  "arg" is the emitter dict as the call leaves it: the
\* code assigns to none of its keys.
generate_signal_update(e, rnd, n) ==
    IF first_missing(e, required_keys) # {}
    THEN Raise("KeyError", CHOOSE k \in first_missing(e, required_keys) : TRUE)
    ELSE [kind |-> "return", value |-> signal_update(e, rnd, n), arg |-> e]

-----------------------------------------------------------------------------
(* One call of a simulator method on an arbitrary emitter dict *)

Levels == {"critical", "high", "medium", "low", "severe"}

Affiliations == {"hostile", "friendly", "neutral", "unknown", "suspect"}

EmitterKeys ==
    {"id", "name", "threat_level", "affiliation", "latitude", "longitude",
     "frequency_min", "frequency_max", "confidence"}

\* <<frequency_min, frequency_max>>: a band, a single frequency, a reversed band
FrequencyPairs ==
    { <<MHz(3, 5000), MHz(30, 0)>>, <<MHz(156, 8000), MHz(156, 8000)>>,
      <<MHz(9500, 0), MHz(8500, 0)>> }

Confidences == {10, 850, 990, 1000}

\* Emitters that vary in what assess_threat reads.
ScorerEmitters ==
    { [id |-> uuid4(0), name |-> "E", threat_level |-> l, affiliation |-> a,
       latitude |-> Deg(5, 500), longitude |-> Deg(100, 0),
       frequency_min |-> MHz(3, 5000), frequency_max |-> MHz(30, 0),
       confidence |-> 850] : l \in Levels, a \in Affiliations }

\* Emitters that vary in what generate_signal_update computes on.
GeneratorEmitters ==
    { [id |-> uuid4(0), name |-> "E", threat_level |-> "high",
       affiliation |-> "hostile",
       latitude |-> Deg(5, 500), longitude |-> Deg(100, 0),
       frequency_min |-> f[1], frequency_max |-> f[2],
       confidence |-> c] : f \in FrequencyPairs, c \in Confidences }

Without(e, keys) == [k \in (DOMAIN e) \ keys |-> e[k]]

\* Each emitter complete, and with any one of its keys absent.
EmitterInputs ==
    { Without(e, ks) : e \in ScorerEmitters \cup GeneratorEmitters,
                       ks \in {{}} \cup { {k} : k \in EmitterKeys } }

NoResult == [op |-> "none"]

-----------------------------------------------------------------------------
(* ConnectionManager *)

Channels == 1..NumChannels

Range(seq) == { seq[i] : i \in 1..Len(seq) }

\* list.remove(x): the list without the first occurrence of x (x is in seq)
remove(seq, x) ==
    LET i == CHOOSE j \in 1..Len(seq) :
                 seq[j] = x /\ \A h \in 1..(j - 1) : seq[h] # x
    IN SubSeq(seq, 1, i - 1) \o SubSeq(seq, i + 1, Len(seq))

\* Variant: the channel is appended before and after the accept.
connect_twice(connections, websocket) == Append(Append(connections, websocket), websocket)

\* ConnectionManager.connect after websocket.accept() has returned
connect(connections, websocket) == Append(connections, websocket)

\* Variant: the list is reset instead of one channel being removed.
disconnect_clear(connections, websocket) ==
    IF websocket \in Range(connections)
    THEN [kind |-> "return", connections |-> <<>>]
    ELSE Raise("ValueError", "websocket")

\* ConnectionManager.disconnect: list.remove raises ValueError when absent
disconnect(connections, websocket) ==
    IF websocket \in Range(connections)
    THEN [kind |-> "return", connections |-> remove(connections, websocket)]
    ELSE Raise("ValueError", "websocket")

-----------------------------------------------------------------------------
(* websocket_battlefield: one task per channel *)

NoMessage == [to |-> 0]

\* Variant: the whole sample list is streamed (no [:5] slice).
working_set_unsliced(samples) == samples

\* emitters = SAMPLE_EMITTERS[:5]
working_set(samples) == SubSeq(samples, 1, Min(5, Len(samples)))

\* All five draws of a call taken at sample point k of their intervals.
DrawsAt(k) ==
    [variation |-> -20 + (40 * k) \div NDraw,
     latitude  |-> -10 + (20 * k) \div NDraw,
     longitude |-> -10 + (20 * k) \div NDraw,
     signal    |-> -10 + (20 * k) \div NDraw,
     frequency |-> -MHz(5, 0) + (2 * MHz(5, 0) * k) \div NDraw]

\* The draws the loop is explored with: in one batch, the calls for the
\* emitters at odd positions share one sample point and those at even
\* positions another, each the low or the high end of the intervals.
BatchDraws(n) ==
    { [i \in 1..n |-> DrawsAt(IF i % 2 = 1 THEN odd ELSE even)]
        : odd \in {0, NDraw}, even \in {0, NDraw} }

\* updates = [simulator.generate_signal_update(e) for e in emitters] with the
\* draws rnds[i] for the i-th call; the uuid4 values are n0 + 1, n0 + 2, ...
update_calls(emitters, rnds, n0) ==
    [i \in 1..Len(emitters) |-> generate_signal_update(emitters[i], rnds[i], n0 + i)]

\* One pass of the loop body up to the call of websocket.send_json, for the
\* task of channel ws.  The dicts of the slice are those of SAMPLE_EMITTERS.
StartBatch(ws) ==
    LET emitters == working_set(sample_emitters) IN
    /\ uuid_count + Len(emitters) <= MaxBatches * Len(emitters)
    /\ \E rnds \in BatchDraws(Len(emitters)) :
        LET calls == update_calls(emitters, rnds, uuid_count) IN
        /\ uuid_count' = uuid_count + Len(emitters)
        /\ IF \E i \in 1..Len(calls) : calls[i].kind = "raise"
           THEN /\ pc' = [pc EXCEPT ![ws] = "failed"]
                /\ UNCHANGED <<sample_emitters, sent>>
           ELSE /\ sample_emitters' =
                     [i \in 1..Len(sample_emitters) |->
                        IF i <= Len(calls) THEN calls[i].arg ELSE sample_emitters[i]]
                /\ sent' = [to |-> ws,
                            message |-> [type |-> "battlefield_update",
                                         data |-> [i \in 1..Len(calls) |-> calls[i].value]]]
                /\ pc' = [pc EXCEPT ![ws] = "send"]

\* Variant: time.sleep(2) instead of await asyncio.sleep(2): a sleeping task
\* blocks the thread of the event loop, so no other task runs meanwhile.
may_run_blocking(ws) == \A o \in Channels \ {ws} : pc[o] # "sleep"

\* Whether the event loop can run the next step of the task of ws.  Every
\* wait of the handler is an await (accept, send_json, asyncio.sleep): it
\* suspends the awaiting task only.
may_run(ws) == TRUE

\* A client opens /ws/battlefield: the task starts and awaits websocket.accept().
Connect(ws) ==
    /\ may_run(ws)
    /\ pc[ws] = "idle"
    /\ pc' = [pc EXCEPT ![ws] = "accept"]
    /\ UNCHANGED <<sample_emitters, active_connections, sent, uuid_count, simVars, regVars, apiVars>>

\* accept() raises: the exception leaves the task before the channel is added.
AcceptFail(ws) ==
    /\ may_run(ws)
    /\ pc[ws] = "accept"
    /\ pc' = [pc EXCEPT ![ws] = "failed"]
    /\ UNCHANGED <<sample_emitters, active_connections, sent, uuid_count, simVars, regVars, apiVars>>

\* accept() returns: the channel is appended and the first batch is built and
\* handed to send_json.
AcceptOk(ws) ==
    /\ may_run(ws)
    /\ pc[ws] = "accept"
    /\ active_connections' = connect(active_connections, ws)
    /\ StartBatch(ws)
    /\ UNCHANGED <<simVars, regVars, apiVars>>

\* Variant: the loop has no asyncio.sleep: the next batch follows at once.
SendOk_no_sleep(ws) ==
    /\ may_run(ws)
    /\ pc[ws] = "send"
    /\ StartBatch(ws)
    /\ UNCHANGED <<active_connections, simVars, regVars, apiVars>>

\* send_json returns: the task goes to asyncio.sleep(2).
SendOk(ws) ==
    /\ may_run(ws)
    /\ pc[ws] = "send"
    /\ pc' = [pc EXCEPT ![ws] = "sleep"]
    /\ UNCHANGED <<sample_emitters, active_connections, sent, uuid_count, simVars, regVars, apiVars>>

\* send_json raises WebSocketDisconnect: the handler calls manager.disconnect.
SendDisconnect(ws) ==
    /\ may_run(ws)
    /\ pc[ws] = "send"
    /\ LET r == disconnect(active_connections, ws) IN
        IF r.kind = "return"
        THEN /\ active_connections' = r.connections
             /\ pc' = [pc EXCEPT ![ws] = "done"]
        ELSE /\ pc' = [pc EXCEPT ![ws] = "failed"]
             /\ UNCHANGED active_connections
    /\ UNCHANGED <<sample_emitters, sent, uuid_count, simVars, regVars, apiVars>>

\* send_json raises another exception: no except clause matches, the exception
\* leaves the task.
SendError(ws) ==
    /\ may_run(ws)
    /\ pc[ws] = "send"
    /\ pc' = [pc EXCEPT ![ws] = "failed"]
    /\ UNCHANGED <<sample_emitters, active_connections, sent, uuid_count, simVars, regVars, apiVars>>

\* asyncio.sleep(2) returns: the next batch is built and handed to send_json.
Wake(ws) ==
    /\ may_run(ws)
    /\ pc[ws] = "sleep"
    /\ StartBatch(ws)
    /\ UNCHANGED <<active_connections, simVars, regVars, apiVars>>

\* No broadcast has been started; n counts the broadcasts started.
IdleBroadcast ==
    [pc |-> "idle", n |-> 0, index |-> 0, start |-> <<>>, attempts |-> <<>>,
     failed |-> <<>>, delivered |-> <<>>, added |-> {}, removed |-> {}]

NoCall == [op |-> "none"]

\* manager = ConnectionManager(): nothing registered, nothing called.
RegInit ==
    /\ bc = IdleBroadcast
    /\ call = NoCall
    /\ connected = {}

NoResponse == [op |-> "none"]

\* The collection db.emitters of a fresh database; nothing requested yet.
ApiInit ==
    /\ db_emitters = <<>>
    /\ response = NoResponse
    /\ requests = 0

WsInit ==
    /\ sample_emitters = SAMPLE_EMITTERS
    /\ active_connections = <<>>
    /\ pc = [ws \in Channels |-> "idle"]
    /\ sent = NoMessage
    /\ uuid_count = 0

WsSpecInit ==
    /\ WsInit
    /\ emitter = CHOOSE e \in ScorerEmitters : TRUE
    /\ result = NoResult
    /\ RegInit
    /\ ApiInit

WsNext ==
    \/ \E ws \in Channels : Connect(ws)
    \/ \E ws \in Channels : AcceptFail(ws)
    \/ \E ws \in Channels : AcceptOk(ws)
    \/ \E ws \in Channels : SendOk(ws)
    \/ \E ws \in Channels : SendDisconnect(ws)
    \/ \E ws \in Channels : SendError(ws)
    \/ \E ws \in Channels : Wake(ws)

SpecWs == WsSpecInit /\ [][WsNext]_vars

\* The event loop resumes a task whose asyncio.sleep(2) timer has expired.
SpecWsFair ==
    /\ WsSpecInit
    /\ [][WsNext]_vars
    /\ \A ws \in Channels : WF_vars(Wake(ws))

-----------------------------------------------------------------------------
(* ConnectionManager under concurrent callers: connect, disconnect and a     *)
(* broadcast task.  broadcast is a coroutine: it is suspended at each        *)
(* await connection.send_json(message), and connect and disconnect of other  *)
(* tasks run meanwhile on the same list.                                     *)

\* The for statement of broadcast fetches its next item: a Python list
\* iterator keeps an index into the list and ends when the index reaches the
\* current length.
broadcast_step(b, connections) ==
    IF b.index < Len(connections)
    THEN [b EXCEPT !.pc = "send",
                   !.index = @ + 1,
                   !.attempts = Append(@, connections[b.index + 1])]
    ELSE [b EXCEPT !.pc = "done"]

\* The channel of the send_json the broadcast is suspended at.
target(b) == b.attempts[Len(b.attempts)]

\* Variant: no except clause, the exception of send_json leaves broadcast.
on_send_error_propagates(b, connections) ==
    [b EXCEPT !.failed = Append(@, target(b)), !.pc = "raised"]

\* except: pass -- the failure is dropped and the loop goes on.
on_send_error(b, connections) ==
    broadcast_step([b EXCEPT !.failed = Append(@, target(b))], connections)

\* The list as changed by other tasks since the broadcast started.
note_added(b, ch) == IF b.pc = "idle" THEN b ELSE [b EXCEPT !.added = @ \cup {ch}]
note_removed(b, ch) == IF b.pc = "idle" THEN b ELSE [b EXCEPT !.removed = @ \cup {ch}]

\* manager.connect(websocket) for a websocket object not connected before.
RegConnect(ch) ==
    /\ ch \notin connected
    /\ connected' = connected \cup {ch}
    /\ active_connections' = connect(active_connections, ch)
    /\ call' = [op |-> "connect", ws |-> ch, before |-> active_connections,
                after |-> active_connections', out |-> "return"]
    /\ bc' = note_added(bc, ch)
    /\ UNCHANGED <<sample_emitters, pc, sent, uuid_count, simVars, apiVars>>

\* manager.disconnect(websocket) for any websocket object.
RegDisconnect(ch) ==
    LET r == disconnect(active_connections, ch) IN
    /\ IF r.kind = "return"
       THEN /\ active_connections' = r.connections
            /\ bc' = note_removed(bc, ch)
       ELSE UNCHANGED <<active_connections, bc>>
    /\ call' = [op |-> "disconnect", ws |-> ch, before |-> active_connections,
                after |-> active_connections',
                out |-> IF r.kind = "return" THEN "return" ELSE r.exc]
    /\ UNCHANGED <<connected, sample_emitters, pc, sent, uuid_count, simVars, apiVars>>

\* manager.broadcast(message) is called: the loop starts.
BroadcastStart ==
    /\ bc.pc \in {"idle", "done", "raised"}
    /\ bc.n < MaxBroadcasts
    /\ bc' = broadcast_step([IdleBroadcast EXCEPT !.n = bc.n + 1,
                                                  !.start = active_connections],
                            active_connections)
    /\ UNCHANGED <<active_connections, call, connected, wsVars, simVars, apiVars>>

\* The awaited send_json returns.
BroadcastSendOk ==
    /\ bc.pc = "send"
    /\ bc' = broadcast_step([bc EXCEPT !.delivered = Append(@, target(bc))],
                            active_connections)
    /\ UNCHANGED <<active_connections, call, connected, wsVars, simVars, apiVars>>

\* The awaited send_json raises.
BroadcastSendFail ==
    /\ bc.pc = "send"
    /\ bc' = on_send_error(bc, active_connections)
    /\ UNCHANGED <<active_connections, call, connected, wsVars, simVars, apiVars>>

RegSpecInit ==
    /\ RegInit
    /\ ApiInit
    /\ WsInit
    /\ emitter = CHOOSE e \in ScorerEmitters : TRUE
    /\ result = NoResult

RegNext ==
    \/ \E ch \in Channels : RegConnect(ch)
    \/ \E ch \in Channels : RegDisconnect(ch)
    \/ BroadcastStart
    \/ BroadcastSendOk
    \/ BroadcastSendFail

SpecReg == RegSpecInit /\ [][RegNext]_vars

-----------------------------------------------------------------------------
(* The API routes on the emitter collection.  A stored document is the       *)
(* model_dump of an Emitter, restricted to the fields the routes and the     *)
(* simulator read; the projection {"_id": 0} of every find is applied, so    *)
(* documents are kept without the _id of the store.                          *)

\* The scenarios: their ids and the names of their emitters.
SCENARIOS ==
    << [id |-> "scenario_1",
        emitters |-> <<
          "KD Lekiu - TLDM Frigate", "KD Gempita - Lumut EW Station",
          "MMEA Kimanis - OPV", "ATR-72 MPA - En Route",
          "MV Ocean Trader - Distress", "Fast Attack Craft 1 - No AIS",
          "Fast Attack Craft 2 - No AIS", "SS Sunrise - Pirate Mothership",
          "Xiang Yang Hong 06 - Research Vessel",
          "VLCC TI Europe - Radar Fault" >>],
       [id |-> "scenario_2",
        emitters |-> <<
          "11 RAD - Pulau Bum Bum", "PASKAL Team - Zodiac Insert",
          "EC-725 Caracal - Overwatch", "Tanjung Labian Radar",
          "KFR Signal 1 - Baofeng Encrypted", "KFR Pump Boat 1",
          "KFR Pump Boat 2", "Smuggler Burst Signal",
          "DJI Mavic 3 - Recon Drone" >>],
       [id |-> "scenario_3",
        emitters |-> <<
          "KD Mahawangsa - AOR", "FA-18D Hornet 1 - CAP",
          "FA-18D Hornet 2 - CAP", "KD Rencong - Future LCS",
          "Platform Duyong-A - PETRONAS", "CCG 5901 - Mega Cutter",
          "Maritime Militia Vessel 1", "Maritime Militia Vessel 2",
          "Maritime Militia Vessel 3", "Maritime Militia Vessel 4",
          "Maritime Militia Vessel 5", "Maritime Militia Vessel 6",
          "Type 052D Kunming - Destroyer", "H-6K Elint Aircraft",
          "Yaogan Satellite - Overhead" >>] >>

\* An optional query parameter: absent (None) or a string.
Absent == [given |-> FALSE]
Given(v) == [given |-> TRUE, value |-> v]

\* bool(p) of Python: None and "" are false.
truthy(p) == p.given /\ p.value # ""

\* The fields of Emitter (the modelled ones).
EmitterFields ==
    {"id", "name", "threat_level", "frequency_min", "frequency_max",
     "latitude", "longitude", "confidence", "affiliation"}

\* The fields of Emitter that have no default.
EmitterRequired ==
    {"name", "threat_level", "frequency_min", "frequency_max", "latitude", "longitude"}

\* The defaults of confidence and affiliation, of Emitter and of EmitterCreate.
field_default(k) == IF k = "confidence" THEN 850 ELSE "hostile"

\* EmitterCreate(...).model_dump(): the body with the defaults filled in.
EmitterCreate(body) ==
    [k \in EmitterFields \ {"id"} |->
        IF k \in DOMAIN body THEN body[k] ELSE field_default(k)]

\* Emitter(**data).model_dump(): keys that are no fields are ignored
\* (extra="ignore"), a missing id is uuid4 number n, missing optional fields
\* take their defaults, a missing required field fails the validation.
Emitter(data, n) ==
    IF EmitterRequired \subseteq DOMAIN data
    THEN [k \in EmitterFields |->
            IF k \in DOMAIN data THEN data[k]
            ELSE IF k = "id" THEN uuid4(n)
            ELSE field_default(k)]
    ELSE Raise("ValidationError", CHOOSE k \in EmitterRequired : k \notin DOMAIN data)

\* dict(e, key=value)
dict(e, key, value) ==
    [k \in DOMAIN e \cup {key} |-> IF k = key THEN value ELSE e[k]]

\* A document matches a query when it has every key of it with that value.
matches(doc, query) ==
    \A k \in DOMAIN query : k \in DOMAIN doc /\ doc[k] = query[k]

\* collection.find(query)
find(collection, query) == SelectSeq(collection, LAMBDA d : matches(d, query))

\* cursor.to_list(length)
to_list(cursor, length) == SubSeq(cursor, 1, Min(length, Len(cursor)))

\* collection.delete_many(query): the documents left.
delete_many(collection, query) ==
    SelectSeq(collection, LAMBDA d : ~ matches(d, query))

\* Variant: when a document matches, the first document of the collection is
\* removed.
delete_one_first(collection, query) ==
    IF find(collection, query) = <<>> THEN collection
    ELSE SubSeq(collection, 2, Len(collection))

\* collection.delete_one(query): the documents left, the first match removed.
delete_one(collection, query) ==
    IF find(collection, query) = <<>> THEN collection
    ELSE LET i == CHOOSE j \in 1..Len(collection) :
                    /\ matches(collection[j], query)
                    /\ \A h \in 1..(j - 1) : ~ matches(collection[h], query)
         IN  SubSeq(collection, 1, i - 1) \o SubSeq(collection, i + 1, Len(collection))

\* collection.find_one(query): the first match, as a sequence of at most one
\* document (empty for None).
find_one(collection, query) ==
    LET hits == find(collection, query) IN SubSeq(hits, 1, Min(1, Len(hits)))

\* The query {} that every document matches.
EmptyQuery == [k \in {} |-> ""]

\* sum(1 for e in emitters if e.get("affiliation") == affiliation)
count_affiliation(emitters, affiliation) ==
    Cardinality({i \in 1..Len(emitters) :
                    /\ "affiliation" \in DOMAIN emitters[i]
                    /\ emitters[i]["affiliation"] = affiliation})

\* The query dict of get_emitters.
emitters_query(affiliation, threat_level) ==
    LET keys == (IF truthy(affiliation) THEN {"affiliation"} ELSE {})
                \cup (IF truthy(threat_level) THEN {"threat_level"} ELSE {})
    IN  [k \in keys |-> IF k = "affiliation" THEN affiliation.value
                        ELSE threat_level.value]

\* emitters = await db.emitters.find(query, {"_id": 0}).to_list(1000)
found_emitters(store, affiliation, threat_level) ==
    to_list(find(store, emitters_query(affiliation, threat_level)), 1000)

\* What get_emitters returns; in the fallback the uuid4 values are n0 + 1, ...
get_emitters(store, samples, affiliation, threat_level, n0) ==
    LET emitters == found_emitters(store, affiliation, threat_level) IN
    IF emitters = <<>>
    THEN [i \in 1..Len(samples) |-> dict(samples[i], "id", uuid4(n0 + i))]
    ELSE emitters

\* Variant: an unknown id yields the first scenario.
scenario_lookup_default(scenario_id) ==
    LET hits == SelectSeq(SCENARIOS, LAMBDA sc : sc.id = scenario_id) IN
    IF hits = <<>> THEN SubSeq(SCENARIOS, 1, 1) ELSE SubSeq(hits, 1, 1)

\* next((s for s in SCENARIOS if s["id"] == scenario_id), None), as a sequence
\* of at most one scenario.
scenario_lookup(scenario_id) ==
    LET hits == SelectSeq(SCENARIOS, LAMBDA sc : sc.id = scenario_id) IN
    SubSeq(hits, 1, Min(1, Len(hits)))

\* Variant of known_names below: the sample emitter is looked up by its id.
\* The names of a scenario for which
\* next((e for e in SAMPLE_EMITTERS if e["name"] == emitter_name), None)
\* is an emitter, and that emitter.
known_names_by_id(samples, names) ==
    SelectSeq(names, LAMBDA nm : \E i \in 1..Len(samples) :
                                    "id" \in DOMAIN samples[i] /\ samples[i]["id"] = nm)

known_names(samples, names) ==
    SelectSeq(names, LAMBDA nm : \E i \in 1..Len(samples) : samples[i]["name"] = nm)

sample_named(samples, nm) ==
    samples[CHOOSE i \in 1..Len(samples) :
                /\ samples[i]["name"] = nm
                /\ \A h \in 1..(i - 1) : samples[h]["name"] # nm]

\* The documents activate_scenario inserts: Emitter(**emitter_data,
\* source="simulation").model_dump() for each name with a sample emitter.
scenario_docs(samples, names, n0) ==
    LET known == known_names(samples, names) IN
    [i \in 1..Len(known) |->
        Emitter(dict(sample_named(samples, known[i]), "source", "simulation"), n0 + i)]

\* The emitters assess_all_threats assesses.
hostile_emitters(store, samples) ==
    LET emitters == to_list(find(store, [affiliation |-> "hostile"]), 100) IN
    IF emitters = <<>>
    THEN SelectSeq(samples, LAMBDA e : e["affiliation"] = "hostile")
    ELSE emitters

\* The draws one response is explored with: the calls of assess_threat for the
\* emitters at odd positions take one phase and one sample point of the time
\* to impact, those at even positions another.
AssessDraws(n) ==
    { [i \in 1..n |-> IF i % 2 = 1 THEN odd ELSE even]
        : odd \in {[phase |-> 1, k |-> 0], [phase |-> 2, k |-> NDraw]},
          even \in {[phase |-> 1, k |-> 0], [phase |-> 2, k |-> NDraw]} }

\* simulator.assess_threat(e) with the draws d.
assess_with(e, d) ==
    LET outs == assess_threat(e) IN
    IF \E r \in outs : r.kind = "raise" THEN CHOOSE r \in outs : TRUE
    ELSE CHOOSE r \in outs :
            /\ r.value.kill_chain_phase \in {kill_chain_phases[d.phase], "monitoring"}
            /\ r.value.time_to_impact \in {Float(30 + (270 * d.k) \div NDraw), None}

\* The stable merge of one more item x into a sorted list s: x goes behind the
\* k items that sort before it or equal to it.
insert_at(s, k, x) == SubSeq(s, 1, k) \o <<x>> \o SubSeq(s, k + 1, Len(s))

\* Variant: sorted(assessments, key=...) without reverse=True.
RECURSIVE sorted_ascending(_)
sorted_ascending(seq) ==
    IF seq = <<>> THEN <<>>
    ELSE LET s == sorted_ascending(SubSeq(seq, 1, Len(seq) - 1))
             x == seq[Len(seq)]
         IN  insert_at(s,
                       Cardinality({i \in 1..Len(s) : s[i].threat_score <= x.threat_score}),
                       x)

\* sorted(assessments, key=lambda x: x["threat_score"], reverse=True): a stable
\* sort, items with equal scores keep their order.
RECURSIVE sorted_by_score(_)
sorted_by_score(seq) ==
    IF seq = <<>> THEN <<>>
    ELSE LET s == sorted_by_score(SubSeq(seq, 1, Len(seq) - 1))
             x == seq[Len(seq)]
         IN  insert_at(s,
                       Cardinality({i \in 1..Len(s) : s[i].threat_score >= x.threat_score}),
                       x)

\* The dict assess_all_threats returns for the assessments (without timestamp).
threat_report(assessments) ==
    [total_threats |-> Len(assessments),
     critical_count |-> Cardinality({i \in 1..Len(assessments) :
                                        assessments[i].threat_score > 800}),
     assessments |-> sorted_by_score(assessments)]

-----------------------------------------------------------------------------
(* The requests the routes are explored with *)

AffiliationParams == {Absent, Given(""), Given("hostile"), Given("friendly")}
ThreatLevelParams == {Absent, Given("critical"), Given("low")}

\* Well-typed bodies of POST /emitters; the first leaves confidence and
\* affiliation to their defaults.
CreateBodies ==
    { [name |-> "Created Radar", threat_level |-> "critical",
       frequency_min |-> MHz(9000, 0), frequency_max |-> MHz(9500, 0),
       latitude |-> Deg(5, 0), longitude |-> Deg(100, 0)],
      [name |-> "Created Relay", threat_level |-> "low",
       frequency_min |-> MHz(225, 0), frequency_max |-> MHz(400, 0),
       latitude |-> Deg(4, 500), longitude |-> Deg(118, 0),
       confidence |-> 990, affiliation |-> "friendly"],
      [name |-> "Created Beacon", threat_level |-> "medium",
       frequency_min |-> MHz(30, 0), frequency_max |-> MHz(3, 5000),
       latitude |-> Deg(5, 800), longitude |-> Deg(112, 100),
       confidence |-> 1500, affiliation |-> "neutral"] }

\* The ids DELETE is called with: one no emitter has, and those of the first
\* and of the last stored document.
DeleteIds(store) ==
    {uuid4(0)} \cup (IF store = <<>> THEN {}
                     ELSE {store[1]["id"], store[Len(store)]["id"]})

\* The ids GET and DELETE /emitters/{emitter_id} are called with: those of
\* DeleteIds, the id of a DELETE just served, and the ids of the first and of
\* the last emitter of a list just served.
RequestIds(store, last) ==
    DeleteIds(store)
    \cup (IF last.op = "delete_emitter" THEN {last.emitter_id} ELSE {})
    \cup (IF last.op = "get_emitters" /\ last.body # <<>>
          THEN {last.body[1]["id"], last.body[Len(last.body)]["id"]} ELSE {})

ScenarioIds == {"scenario_1", "scenario_2", "scenario_3", "scenario_9"}

\* What an API action leaves alone besides the store and the uuid4 counter.
notApiVars == <<simVars, sample_emitters, active_connections, pc, sent, regVars>>

\* Variant: the fallback also writes the sample emitters it serves to the store.
GetEmitters_seeding ==
    /\ requests < MaxRequests
    /\ \E affiliation \in AffiliationParams, threat_level \in ThreatLevelParams :
        LET body == get_emitters(db_emitters, sample_emitters,
                                 affiliation, threat_level, uuid_count)
            fallback == found_emitters(db_emitters, affiliation, threat_level) = <<>>
        IN  /\ response' = [op |-> "get_emitters",
                            affiliation |-> affiliation, threat_level |-> threat_level,
                            status |-> 200, body |-> body]
            /\ uuid_count' = IF fallback THEN uuid_count + Len(sample_emitters)
                             ELSE uuid_count
            /\ db_emitters' = IF fallback THEN db_emitters \o body ELSE db_emitters
    /\ requests' = requests + 1
    /\ UNCHANGED notApiVars

\* GET /api/emitters
GetEmitters ==
    /\ requests < MaxRequests
    /\ \E affiliation \in AffiliationParams, threat_level \in ThreatLevelParams :
        /\ response' = [op |-> "get_emitters",
                        affiliation |-> affiliation, threat_level |-> threat_level,
                        status |-> 200,
                        body |-> get_emitters(db_emitters, sample_emitters,
                                              affiliation, threat_level, uuid_count)]
        /\ uuid_count' =
              IF found_emitters(db_emitters, affiliation, threat_level) = <<>>
              THEN uuid_count + Len(sample_emitters) ELSE uuid_count
    /\ requests' = requests + 1
    /\ UNCHANGED <<db_emitters, notApiVars>>

\* POST /api/emitters
CreateEmitter ==
    /\ requests < MaxRequests
    /\ \E body \in CreateBodies :
        LET doc == Emitter(EmitterCreate(body), uuid_count + 1) IN
        /\ db_emitters' = Append(db_emitters, doc)
        /\ response' = [op |-> "create_emitter", body |-> doc]
    /\ uuid_count' = uuid_count + 1
    /\ requests' = requests + 1
    /\ UNCHANGED notApiVars

\* DELETE /api/emitters/{emitter_id}
DeleteEmitter ==
    /\ requests < MaxRequests
    /\ \E emitter_id \in RequestIds(db_emitters, response) :
        LET left == delete_one(db_emitters, [id |-> emitter_id]) IN
        /\ db_emitters' = left
        /\ response' = IF Len(db_emitters) - Len(left) = 0
                       THEN [op |-> "delete_emitter", emitter_id |-> emitter_id,
                             status |-> 404, detail |-> "Emitter not found"]
                       ELSE [op |-> "delete_emitter", emitter_id |-> emitter_id,
                             status |-> 200, message |-> "Emitter deleted"]
    /\ requests' = requests + 1
    /\ UNCHANGED <<uuid_count, notApiVars>>

\* POST /api/scenarios/{scenario_id}/activate
ActivateScenario ==
    /\ requests < MaxRequests
    /\ \E scenario_id \in ScenarioIds :
        LET scenario == scenario_lookup(scenario_id) IN
        IF scenario = <<>>
        THEN /\ response' = [op |-> "activate_scenario", scenario_id |-> scenario_id,
                             status |-> 404, detail |-> "Scenario not found"]
             /\ UNCHANGED <<db_emitters, uuid_count>>
        ELSE LET docs == scenario_docs(sample_emitters, scenario[1].emitters, uuid_count)
                 kept == delete_many(db_emitters, [source |-> "simulation"])
             IN  /\ db_emitters' = kept \o docs
                 /\ uuid_count' = uuid_count + Len(docs)
                 /\ response' = [op |-> "activate_scenario", scenario_id |-> scenario_id,
                                 status |-> 200,
                                 body |-> [scenario_id |-> scenario_id,
                                           status |-> "activated",
                                           emitters_loaded |-> Len(docs)]]
    /\ requests' = requests + 1
    /\ UNCHANGED notApiVars

\* GET /api/threats/assess
AssessAllThreats ==
    /\ requests < MaxRequests
    /\ LET emitters == hostile_emitters(db_emitters, sample_emitters) IN
       \E draws \in AssessDraws(Len(emitters)) :
        LET outs == [i \in 1..Len(emitters) |-> assess_with(emitters[i], draws[i])] IN
        response' = IF \E i \in 1..Len(outs) : outs[i].kind = "raise"
                    THEN [op |-> "assess_all_threats", status |-> 500]
                    ELSE [op |-> "assess_all_threats", status |-> 200,
                          body |-> threat_report([i \in 1..Len(outs) |-> outs[i].value])]
    /\ requests' = requests + 1
    /\ UNCHANGED <<db_emitters, uuid_count, notApiVars>>

\* GET /api/emitters/{emitter_id}
GetEmitter ==
    /\ requests < MaxRequests
    /\ \E emitter_id \in RequestIds(db_emitters, response) :
        LET hit == find_one(db_emitters, [id |-> emitter_id]) IN
        response' = IF hit = <<>>
                    THEN [op |-> "get_emitter", emitter_id |-> emitter_id,
                          status |-> 404, detail |-> "Emitter not found"]
                    ELSE [op |-> "get_emitter", emitter_id |-> emitter_id,
                          status |-> 200, body |-> hit[1]]
    /\ requests' = requests + 1
    /\ UNCHANGED <<db_emitters, uuid_count, notApiVars>>

\* GET /api/scenarios/{scenario_id}
GetScenario ==
    /\ requests < MaxRequests
    /\ \E scenario_id \in ScenarioIds :
        LET scenario == scenario_lookup(scenario_id) IN
        IF scenario = <<>>
        THEN /\ response' = [op |-> "get_scenario", scenario_id |-> scenario_id,
                             status |-> 404, detail |-> "Scenario not found"]
             /\ UNCHANGED uuid_count
        ELSE LET known == known_names(sample_emitters, scenario[1].emitters) IN
             /\ response' =
                   [op |-> "get_scenario", scenario_id |-> scenario_id,
                    status |-> 200,
                    body |-> [id |-> scenario[1].id,
                              emitters |-> scenario[1].emitters,
                              emitter_data |->
                                [i \in 1..Len(known) |->
                                    dict(sample_named(sample_emitters, known[i]),
                                         "id", uuid4(uuid_count + i))]]]
             /\ uuid_count' = uuid_count + Len(known)
    /\ requests' = requests + 1
    /\ UNCHANGED <<db_emitters, notApiVars>>

\* GET /api/metrics (the random.randint figures of the response are left out)
GetSystemMetrics ==
    /\ requests < MaxRequests
    /\ LET stored == to_list(find(db_emitters, EmptyQuery), 1000)
           emitters == IF stored = <<>> THEN sample_emitters ELSE stored
       IN  response' = [op |-> "get_system_metrics", status |-> 200,
                        body |-> [emitters_tracked |-> Len(emitters),
                                  hostile_count |-> count_affiliation(emitters, "hostile"),
                                  friendly_count |-> count_affiliation(emitters, "friendly")]]
    /\ requests' = requests + 1
    /\ UNCHANGED <<db_emitters, uuid_count, notApiVars>>

\* POST /api/ai/chat.  get_ai_response answers "offline" without an API key;
\* with one it draws a uuid4 for the session and returns the reply of the
\* model or, on any exception, "unavailable".
AiChat ==
    /\ requests < MaxRequests
    /\ LET stored == to_list(find(db_emitters, EmptyQuery), 50)
           emitters == IF stored = <<>>
                       THEN SubSeq(sample_emitters, 1, Min(5, Len(sample_emitters)))
                       ELSE stored
       IN  \E answer \in {"offline", "reply", "unavailable"} :
            /\ response' = [op |-> "ai_chat", status |-> 200,
                            body |-> [response |-> answer,
                                      context |->
                                        [active_emitters |-> Len(emitters),
                                         hostile_count |->
                                            count_affiliation(emitters, "hostile")]]]
            /\ uuid_count' = IF answer = "offline" THEN uuid_count ELSE uuid_count + 1
    /\ requests' = requests + 1
    /\ UNCHANGED <<db_emitters, notApiVars>>

ApiSpecInit ==
    /\ ApiInit
    /\ WsInit
    /\ RegInit
    /\ emitter = CHOOSE e \in ScorerEmitters : TRUE
    /\ result = NoResult

ApiNext ==
    \/ GetEmitters
    \/ CreateEmitter
    \/ DeleteEmitter
    \/ ActivateScenario
    \/ AssessAllThreats
    \/ GetEmitter
    \/ GetScenario
    \/ GetSystemMetrics
    \/ AiChat

SpecApi == ApiSpecInit /\ [][ApiNext]_vars

-----------------------------------------------------------------------------
(* The routes and the websocket handler in one process: requests are served  *)
(* while a subscriber loop runs.                                             *)

\* Stores the routes can have built: none, one created emitter, the emitters of
\* an activated scenario; the uuid4 values drawn for them are 1, 2, ...
SeedStores ==
    { <<>>,
      <<Emitter(EmitterCreate(CHOOSE b \in CreateBodies : b.name = "Created Relay"), 1)>>,
      scenario_docs(SAMPLE_EMITTERS, SCENARIOS[2].emitters, 0) }

\* One request is still to be served on one of the stores; the websocket of
\* channel 1 has not connected yet, those of the other channels failed in
\* accept.
ServerInit ==
    /\ db_emitters \in SeedStores
    /\ uuid_count = Len(db_emitters)
    /\ response = NoResponse
    /\ requests = MaxRequests - 1
    /\ sample_emitters = SAMPLE_EMITTERS
    /\ active_connections = <<>>
    /\ pc = [ws \in Channels |-> IF ws = 1 THEN "idle" ELSE "failed"]
    /\ sent = NoMessage
    /\ RegInit
    /\ emitter = CHOOSE e \in ScorerEmitters : TRUE
    /\ result = NoResult

ServerNext == ApiNext \/ WsNext

SpecServer == ServerInit /\ [][ServerNext]_vars

SimInit ==
    /\ emitter \in EmitterInputs
    /\ result = NoResult
    /\ WsInit
    /\ RegInit
    /\ ApiInit

CallAssessThreat ==
    /\ result = NoResult
    /\ \E r \in assess_threat(emitter) :
        /\ result' = [op |-> "assess_threat", out |-> r]
        /\ emitter' = IF r.kind = "return" THEN r.arg ELSE emitter
    /\ UNCHANGED <<wsVars, regVars, apiVars>>

CallGenerateSignalUpdate ==
    /\ result = NoResult
    /\ \E rnd \in RandomDraws :
        LET r == generate_signal_update(emitter, rnd, 1) IN
        /\ result' = [op |-> "generate_signal_update", rnd |-> rnd, out |-> r]
        /\ emitter' = IF r.kind = "return" THEN r.arg ELSE emitter
    /\ UNCHANGED <<wsVars, regVars, apiVars>>

SimNext == CallAssessThreat \/ CallGenerateSignalUpdate

SpecSim == SimInit /\ [][SimNext]_vars

-----------------------------------------------------------------------------
(* Claims about assess_threat and generate_signal_update, under SpecSim *)

Assessed == result.op = "assess_threat"

Generated == result.op = "generate_signal_update"

Returned == result.op # "none" /\ result.out.kind = "return"

Has(e, keys) == keys \subseteq DOMAIN e

ScorerKeys == {"threat_level", "affiliation", "name"}

KnownLevels == {"critical", "high", "medium", "low"}

KnownAffiliations == {"hostile", "friendly", "neutral", "unknown"}

\* The score tables as the claims state them, in thousandths and tenths.
ClaimedBase(level) ==
    CASE level = "critical" -> 950
      [] level = "high" -> 750
      [] level = "medium" -> 500
      [] level = "low" -> 250
      [] OTHER -> 500

ClaimedMultiplierTenths(affiliation) ==
    CASE affiliation = "hostile" -> 12
      [] affiliation = "friendly" -> 1
      [] OTHER -> 10

ClaimedScore(level, affiliation) ==
    Min(1000, (ClaimedBase(level) * ClaimedMultiplierTenths(affiliation)) \div 10)

EcmActions == <<"Activate ECM", "Deploy decoys", "Maneuver to minimize exposure">>

MonitorActions == <<"Continue monitoring", "Prepare countermeasures">>

TrackActions == <<"Track for intelligence", "Log to database">>

\* C1: for an emitter with a recognised threat_level and a recognised
\* affiliation, assess_threat returns threat_score = min(1.0, base x mult) with
\* base 0.95/0.75/0.5/0.25 and mult 1.2 (hostile), 0.1 (friendly), 1.0
\* (neutral, unknown); the score lies in [0, 1]; critical+hostile gives 1.0 and
\* low+friendly gives 0.025.
C1_ScoreTable ==
    (/\ Assessed
     /\ Has(emitter, ScorerKeys)
     /\ emitter["threat_level"] \in KnownLevels
     /\ emitter["affiliation"] \in KnownAffiliations)
    => /\ Returned
       /\ LET s == result.out.value.threat_score
              l == emitter["threat_level"]
              a == emitter["affiliation"] IN
          /\ s = ClaimedScore(l, a)
          /\ 0 <= s /\ s <= 1000
          /\ (l = "critical" /\ a = "hostile") => s = 1000
          /\ (l = "low" /\ a = "friendly") => s = 25

C1_Witness ==
    /\ Assessed /\ Returned
    /\ emitter["threat_level"] = "critical"
    /\ emitter["affiliation"] = "hostile"
    /\ result.out.value.threat_score = 1000

\* C2: on an emitter whose threat_level is not one of the four levels,
\* assess_threat does not raise but scores from base 0.5; with a neutral
\* affiliation the score is 0.5 and the actions are the monitoring pair.
C2_UnknownLevelDefault ==
    (/\ Assessed
     /\ Has(emitter, ScorerKeys)
     /\ emitter["threat_level"] \notin KnownLevels)
    => /\ Returned
       /\ result.out.value.threat_score
            = Min(1000, (500 * ClaimedMultiplierTenths(emitter["affiliation"])) \div 10)
       /\ emitter["affiliation"] = "neutral"
            => /\ result.out.value.threat_score = 500
               /\ result.out.value.recommended_actions = MonitorActions

C2_Witness ==
    /\ Assessed /\ Returned
    /\ emitter["threat_level"] = "severe"
    /\ emitter["affiliation"] = "neutral"
    /\ result.out.value.threat_score = 500

\* C3: the recommended actions are determined by the returned (clamped) score:
\* above 0.7 the ECM list, above 0.4 up to 0.7 the monitoring pair, up to 0.4
\* the tracking pair.
C3_ActionBands ==
    (Assessed /\ Returned)
    => LET s == result.out.value.threat_score
           acts == result.out.value.recommended_actions IN
       /\ s > 700 => acts = EcmActions
       /\ (400 < s /\ s <= 700) => acts = MonitorActions
       /\ s <= 400 => acts = TrackActions

\* the band is picked from 1.14, the score returned is the clamped 1.0
C3_Witness ==
    /\ Assessed /\ Returned
    /\ adjust_score(base_score(emitter), emitter["affiliation"]) > 1000
    /\ result.out.value.threat_score = 1000
    /\ result.out.value.recommended_actions = EcmActions

\* C4: time_to_impact is a number exactly when the returned score is above
\* 0.7, and then lies in [30, 300]; otherwise it is None.  It is a number
\* exactly when the actions are the ECM list.
C4_TimeToImpact ==
    (Assessed /\ Returned)
    => LET s == result.out.value.threat_score
           t == result.out.value.time_to_impact IN
       /\ (t # None) <=> (s > 700)
       /\ t # None => (t.type = "float" /\ 30 <= t.value /\ t.value <= 300)
       /\ (t # None) <=> (result.out.value.recommended_actions = EcmActions)

C4_Witness ==
    /\ Assessed /\ Returned
    /\ result.out.value.threat_score = 750
    /\ result.out.value.time_to_impact = Float(300)

\* C5: kill_chain_phase is "detection" or "tracking" for a hostile emitter and
\* "monitoring" for any other affiliation; never "engagement" or "intercept".
C5_Phase ==
    (Assessed /\ Returned)
    => LET p == result.out.value.kill_chain_phase IN
       /\ emitter["affiliation"] = "hostile" => p \in {"detection", "tracking"}
       /\ emitter["affiliation"] # "hostile" => p = "monitoring"
       /\ p \notin {"engagement", "intercept"}

C5_Witness ==
    /\ Assessed /\ Returned
    /\ emitter["affiliation"] = "hostile"
    /\ result.out.value.threat_score = 1000
    /\ result.out.value.kill_chain_phase = "tracking"

GeoFrequencyKeys == {"latitude", "longitude", "frequency_min", "frequency_max"}

\* C6: on an emitter that lacks a geolocation or a frequency field, both
\* generate_signal_update and assess_threat fail instead of returning.
C6_MalformedFails ==
    (result.op # "none" /\ ~ Has(emitter, GeoFrequencyKeys))
    => result.out.kind = "raise"

C8_JitterRanges ==
    (/\ Generated /\ Returned
     /\ emitter["frequency_min"] <= emitter["frequency_max"])
    => LET u == result.out.value
           sum == emitter["frequency_min"] + emitter["frequency_max"] IN
       /\ sum - 2 * MHz(5, 0) <= 2 * u.frequency
       /\ 2 * u.frequency <= sum + 2 * MHz(5, 0)
       /\ emitter["latitude"] - 10 <= u.latitude
       /\ u.latitude <= emitter["latitude"] + 10
       /\ emitter["longitude"] - 10 <= u.longitude
       /\ u.longitude <= emitter["longitude"] + 10
       /\ -60 <= u.signal_strength /\ u.signal_strength <= -40

C8_Witness ==
    /\ Generated /\ Returned
    /\ emitter["frequency_min"] < emitter["frequency_max"]
    /\ 2 * result.out.value.frequency
         = emitter["frequency_min"] + emitter["frequency_max"] + 2 * MHz(5, 0)
    /\ result.out.value.latitude = emitter["latitude"] - 10
    /\ result.out.value.signal_strength = -60

-----------------------------------------------------------------------------
(* Claims about the broadcast loop, under SpecWs *)

\* C9: generate_signal_update leaves the emitter dicts as they were: after any
\* number of batches SAMPLE_EMITTERS (and so the working set) has its initial
\* contents, and every update carries the name, affiliation and threat_level
\* of the emitter it was made from.
C9_EmittersUnchanged ==
    /\ sample_emitters = SAMPLE_EMITTERS
    /\ sent # NoMessage
        => \A i \in 1..Len(sent.message.data) :
            LET u == sent.message.data[i] IN
            /\ u.name = sample_emitters[i]["name"]
            /\ u.affiliation = sample_emitters[i]["affiliation"]
            /\ u.threat_level = sample_emitters[i]["threat_level"]

\* the third batch has been built, the second one for channel 2
C9_Witness ==
    /\ uuid_count = 15
    /\ sent # NoMessage
    /\ sent.to = 2
    /\ pc[1] = "sleep"

\* C10: every message the loop hands to send_json has type "battlefield_update"
\* and a data list of exactly 5 updates, the i-th made from the i-th sample
\* emitter, whatever the tick and the subscriber.
C10_BatchShape ==
    sent # NoMessage
    => /\ sent.to \in Channels
       /\ sent.message.type = "battlefield_update"
       /\ Len(sent.message.data) = 5
       /\ \A i \in 1..5 :
            LET u == sent.message.data[i] IN
            /\ u.name = SAMPLE_EMITTERS[i]["name"]
            /\ u.latitude - SAMPLE_EMITTERS[i]["latitude"] \in -10..10
            /\ u.longitude - SAMPLE_EMITTERS[i]["longitude"] \in -10..10

\* a later batch of one subscriber while another subscriber is streaming too
C10_Witness ==
    /\ sent # NoMessage
    /\ sent.to = 1
    /\ uuid_count >= 10
    /\ Len(sent.message.data) = 5
    /\ active_connections = <<2, 1>>

\* No further batch fits into the batches explored.
BudgetExhausted ==
    uuid_count + Len(working_set(sample_emitters))
        > MaxBatches * Len(working_set(sample_emitters))

\* This step hands a new batch for ws to send_json.
BatchHanded(ws) ==
    /\ uuid_count' # uuid_count
    /\ sent'.to = ws
    /\ pc'[ws] = "send"

\* C11: one batch per tick and subscriber.  The first batch is handed over in
\* the step that registers the channel; every later batch follows exactly one
\* asyncio.sleep; a send is followed by the sleep or by the end of the loop; and
\* a sleeping loop goes on to its next batch (as far as batches are explored).
C11_OneBatchPerTick ==
    /\ [][\A ws \in Channels :
            /\ BatchHanded(ws) => pc[ws] \in {"accept", "sleep"}
            /\ (ws \notin Range(active_connections)
                  /\ ws \in Range(active_connections')) => BatchHanded(ws)
            /\ (pc[ws] = "send" /\ pc'[ws] # "send")
                  => (pc'[ws] \in {"sleep", "done", "failed"}
                        /\ uuid_count' = uuid_count)
            /\ (pc[ws] = "sleep" /\ pc'[ws] # "sleep") => BatchHanded(ws)]_vars
    /\ \A ws \in Channels :
            (pc[ws] = "sleep") ~> (pc[ws] = "send" \/ BudgetExhausted)

\* two batches, both for channel 1 (channel 2 never connected)
C11_Witness ==
    /\ uuid_count = 10
    /\ pc[1] = "send"
    /\ pc[2] = "idle"
    /\ sent.to = 1

\* C12: whenever a send fails, whatever the failure, the loop of that
\* subscriber ends, the subscriber leaves the active set, and no other loop
\* is affected.
C12_SendFailureDeregisters ==
    [][\A ws \in Channels :
        (pc[ws] = "send" /\ pc'[ws] \in {"done", "failed"})
        => /\ ws \notin Range(active_connections')
           /\ \A o \in Channels \ {ws} : pc'[o] = pc[o]]_vars

\* C13: when the loop of one subscriber ends on its disconnect, exactly its
\* channel leaves the active set, the other channels keep their places and
\* their loops their positions; and a sleeping loop can always go on to its next
\* batch, whatever the other subscribers did.
C13_DisconnectIsolated ==
    /\ [][\A ws \in Channels :
            (pc[ws] = "send" /\ pc'[ws] = "done")
            => /\ ws \in Range(active_connections)
               /\ active_connections'
                    = SelectSeq(active_connections, LAMBDA c : c # ws)
               /\ \A o \in Channels \ {ws} : pc'[o] = pc[o]]_vars
    /\ [](\A o \in Channels :
            (pc[o] = "sleep" /\ ~ BudgetExhausted) => ENABLED Wake(o))

\* channel 1 has disconnected; channel 2 is registered and has a batch in flight
C13_Witness ==
    /\ pc[1] = "done"
    /\ pc[2] = "send"
    /\ active_connections = <<2>>
    /\ sent.to = 2
    /\ uuid_count = 15

\* C14: while the loop of one subscriber is in its asyncio.sleep, every other
\* task can take its next step: a new client can connect, be accepted and get
\* its first batch, and another loop can complete its send and start its next
\* batch.
C14_SleepDoesNotBlock ==
    \A a \in Channels : pc[a] = "sleep" =>
        \A b \in Channels \ {a} :
            /\ pc[b] = "idle" => ENABLED Connect(b)
            /\ (pc[b] = "accept" /\ ~ BudgetExhausted) => ENABLED AcceptOk(b)
            /\ pc[b] = "send" => ENABLED SendOk(b)
            /\ (pc[b] = "sleep" /\ ~ BudgetExhausted) => ENABLED Wake(b)

\* channel 2 was registered after channel 1 and its first batch is in flight
\* while the loop of channel 1 sleeps
C14_Witness ==
    /\ pc[1] = "sleep"
    /\ pc[2] = "send"
    /\ active_connections = <<1, 2>>
    /\ sent.to = 2
    /\ uuid_count = 10


-----------------------------------------------------------------------------
(* ConnectionManager: explored with SpecReg *)

\* Number of places of seq that hold x.
Count(seq, x) == Cardinality({i \in 1..Len(seq) : seq[i] = x})

\* No connect and no disconnect has changed the list since the broadcast began.
Undisturbed == bc.added = {} /\ bc.removed = {}

\* C15: broadcast raises nothing; and a broadcast during which no other task
\* changes the list leaves the list as it was, and once it is done it has
\* attempted each registered channel once, in order, and delivered to each
\* channel whose send did not fail.
C15_BroadcastIsolatesFailures ==
    /\ bc.pc # "raised"
    /\ (bc.pc \in {"send", "done"} /\ Undisturbed) => active_connections = bc.start
    /\ (bc.pc = "done" /\ Undisturbed) =>
          /\ bc.attempts = bc.start
          /\ bc.delivered
               = SelectSeq(bc.start, LAMBDA c : c \notin Range(bc.failed))

\* two registered channels: the send to the first failed, the second got the message
C15_Witness ==
    /\ bc.pc = "done"
    /\ Undisturbed
    /\ bc.start = <<1, 2>>
    /\ bc.failed = <<1>>
    /\ bc.delivered = <<2>>
    /\ active_connections = <<1, 2>>

\* C16: whatever connects and disconnects run while a broadcast is suspended,
\* a finished broadcast has attempted exactly once every channel that was
\* registered from its start to its end, and the active set is the set at the
\* start with the connects and disconnects applied.
C16_InterleavingSafe ==
    /\ bc.pc = "done" =>
          \A ch \in Range(bc.start) \ bc.removed : Count(bc.attempts, ch) = 1
    /\ bc.pc # "idle" =>
          Range(active_connections) = (Range(bc.start) \cup bc.added) \ bc.removed

\* C17: disconnect of a channel that is not registered returns without raising
\* and leaves the list as it was; disconnect of a registered channel removes
\* that channel and no other.
C17_DisconnectAbsentNoRaise ==
    call.op = "disconnect" =>
        IF call.ws \in Range(call.before)
        THEN /\ call.out = "return"
             /\ call.after = SelectSeq(call.before, LAMBDA c : c # call.ws)
        ELSE /\ call.out = "return"
             /\ call.after = call.before


-----------------------------------------------------------------------------
(* API routes: explored with SpecApi *)

\* The ids of the stored emitters.
StoredIds == { db_emitters[i]["id"] : i \in 1..Len(db_emitters) }

\* C18: every emitter in the response of get_emitters has the affiliation
\* asked for, when one is given, and the threat_level asked for, when one is
\* given; also when the sample emitters are served.
C18_FiltersRespected ==
    response.op = "get_emitters" =>
        \A i \in 1..Len(response.body) :
            /\ truthy(response.affiliation)
                 => response.body[i]["affiliation"] = response.affiliation.value
            /\ truthy(response.threat_level)
                 => response.body[i]["threat_level"] = response.threat_level.value

\* C19: while the store holds an emitter, get_emitters returns stored emitters
\* only (none when the filters match none), and assess_all_threats assesses
\* stored emitters only.
C19_FallbackOnlyWhenStoreEmpty ==
    db_emitters # <<>> =>
        /\ response.op = "get_emitters" =>
              \A i \in 1..Len(response.body) : response.body[i] \in Range(db_emitters)
        /\ (response.op = "assess_all_threats" /\ response.status = 200) =>
              \A i \in 1..Len(response.body.assessments) :
                  response.body.assessments[i].emitter_id \in StoredIds

\* The hostile emitters of the store, else those of the samples.
HostileConsidered ==
    IF \E i \in 1..Len(db_emitters) : db_emitters[i]["affiliation"] = "hostile"
    THEN SelectSeq(db_emitters, LAMBDA e : e["affiliation"] = "hostile")
    ELSE SelectSeq(sample_emitters, LAMBDA e : e["affiliation"] = "hostile")

-----------------------------------------------------------------------------
(* Routes and websocket handler together: explored with SpecServer *)

\* The routes that write to the emitter collection.
WritingRoutes == {"create_emitter", "activate_scenario", "delete_emitter"}

\* This step serves a request of one of the routes ops.
Serves(ops) == requests' = requests + 1 /\ response'.op \in ops

\* C21: a step changes the stored emitters only when it serves create_emitter,
\* activate_scenario or delete_emitter; the reading routes and every step of a
\* subscriber loop leave the store as it is; and no step changes
\* SAMPLE_EMITTERS.
C21_StoreFrame ==
    [][/\ db_emitters' # db_emitters => Serves(WritingRoutes)
       /\ Serves({"get_emitters", "get_emitter", "get_scenario", "assess_all_threats",
                  "get_system_metrics", "ai_chat"}) => db_emitters' = db_emitters
       /\ (pc' # pc \/ sent' # sent) => db_emitters' = db_emitters
       /\ sample_emitters' = sample_emitters]_vars

\* the metrics were read from a store with emitters while a batch of channel 1
\* is in flight
C21_Witness ==
    /\ response.op = "get_system_metrics"
    /\ db_emitters # <<>>
    /\ pc[1] = "send"
    /\ sent.to = 1


-----------------------------------------------------------------------------
(* Further claims explored with SpecApi and SpecSim *)

\* C22: every stored emitter has frequency_min <= frequency_max and a
\* confidence of at most 1.0.
C22_StoredEmittersValid ==
    \A i \in 1..Len(db_emitters) :
        /\ db_emitters[i]["frequency_min"] <= db_emitters[i]["frequency_max"]
        /\ db_emitters[i]["confidence"] <= 1000

SampleNames == { sample_emitters[i]["name"] : i \in 1..Len(sample_emitters) }

DefinedScenarios == { SCENARIOS[i].id : i \in 1..Len(SCENARIOS) }

\* C24: activate_scenario of a defined scenario answers "activated" with
\* emitters_loaded > 0; emitters_loaded is the number of names of the scenario
\* that are names of sample emitters, and it is the number of records the call
\* inserted: the last emitters_loaded records of the store are new ones, the
\* records before them were in the store already.
C24_ActivationLoads ==
    [][(Serves({"activate_scenario"}) /\ response'.scenario_id \in DefinedScenarios)
       => /\ response'.status = 200
          /\ response'.body.status = "activated"
          /\ LET k == response'.body.emitters_loaded
                 n == Len(db_emitters')
                 names == scenario_lookup(response'.scenario_id)[1].emitters
             IN  /\ k > 0
                 /\ k <= n
                 /\ k = Cardinality({j \in 1..Len(names) : names[j] \in SampleNames})
                 /\ \A i \in (n - k + 1)..n :
                       /\ db_emitters'[i]["id"] \notin StoredIds
                       /\ db_emitters'[i]["name"] \in Range(names)
                 /\ \A i \in 1..(n - k) : db_emitters'[i] \in Range(db_emitters)]_vars

\* the 15 emitters of scenario_3 were loaded into a store that held a created one
C24_Witness ==
    /\ response.op = "activate_scenario"
    /\ response.scenario_id = "scenario_3"
    /\ response.body.emitters_loaded = 15
    /\ Len(db_emitters) = 16
    /\ db_emitters[1]["name"] = "Created Radar"
    /\ db_emitters[16]["name"] = "Yaogan Satellite - Overhead"

\* C25: after a successful activation no record that an earlier activation
\* inserted is left in the store (every record with the name of a sample
\* emitter is one this call inserted), and the records of create_emitter are
\* kept.
C25_ActivationReplaces ==
    [][(Serves({"activate_scenario"}) /\ response'.status = 200)
       => /\ \A i \in 1..Len(db_emitters') :
                db_emitters'[i]["id"] \in StoredIds
                  => db_emitters'[i]["name"] \notin SampleNames
          /\ \A i \in 1..Len(db_emitters) :
                db_emitters[i]["name"] \notin SampleNames
                  => db_emitters[i] \in Range(db_emitters')]_vars

\* C27: a get_emitter that follows a get_emitters and asks for an id of its
\* list returns the emitter with that id.
C27_ListedIdsFetchable ==
    [][(/\ response.op = "get_emitters"
        /\ Serves({"get_emitter"})
        /\ \E i \in 1..Len(response.body) :
              response.body[i]["id"] = response'.emitter_id)
       => /\ response'.status = 200
          /\ response'.body["id"] = response'.emitter_id]_vars

\* C29: delete_emitter of a stored id answers 200 and removes the record with
\* that id and no other; of an id that is not stored it answers 404 and leaves
\* the store as it is; and a get_emitter or delete_emitter of the id of a
\* delete that just succeeded answers 404.
C29_DeleteExact ==
    [][/\ Serves({"delete_emitter"}) =>
            IF response'.emitter_id \in StoredIds
            THEN /\ response'.status = 200
                 /\ db_emitters'
                      = SelectSeq(db_emitters, LAMBDA d : d["id"] # response'.emitter_id)
                 /\ Len(db_emitters') = Len(db_emitters) - 1
            ELSE /\ response'.status = 404
                 /\ db_emitters' = db_emitters
       /\ (/\ response.op = "delete_emitter"
           /\ response.status = 200
           /\ Serves({"get_emitter", "delete_emitter"})
           /\ response'.emitter_id = response.emitter_id)
          => response'.status = 404]_vars

\* an emitter was created and deleted, and the second delete of its id got 404
C29_Witness ==
    /\ response.op = "delete_emitter"
    /\ response.status = 404
    /\ response.emitter_id = uuid4(1)
    /\ uuid_count = 1
    /\ db_emitters = <<>>

\* C30: get_scenario and activate_scenario of an id that is not the id of a
\* scenario answer 404 and leave the store as it is.
C30_UnknownScenario ==
    [][(/\ Serves({"get_scenario", "activate_scenario"})
        /\ response'.scenario_id \notin DefinedScenarios)
       => /\ response'.status = 404
          /\ db_emitters' = db_emitters]_vars

\* the activation of scenario_9 was refused on a store that holds emitters
C30_Witness ==
    /\ response.op = "activate_scenario"
    /\ response.scenario_id = "scenario_9"
    /\ response.status = 404
    /\ db_emitters # <<>>

-----------------------------------------------------------------------------
(* Further claims explored with SpecWs *)

\* C26: a signal update carries the id of its emitter: the updates for the
\* emitter at one place of the working set have the same emitter_id in every
\* batch, of one subscriber and of different subscribers.
C26_EmitterIdStable ==
    [][(sent.to # 0 /\ sent'.to # 0)
       => \A i \in 1..Len(sent'.message.data) :
             sent'.message.data[i].emitter_id = sent.message.data[i].emitter_id]_vars

\* C28: a channel is in the active set at most once; it is not in the set
\* before its accept has succeeded; while a batch is sent to it, and while its
\* loop sleeps, it is in the set, so that the disconnect of the handler, which
\* is called from a failed send only, finds it; and the step that ends a loop
\* on a disconnect removes a channel that is in the set.
C28_ActiveSetDiscipline ==
    /\ [](\A ws \in Channels :
            /\ Count(active_connections, ws) <= 1
            /\ pc[ws] \in {"idle", "accept"} => ws \notin Range(active_connections)
            /\ pc[ws] \in {"send", "sleep"} => ws \in Range(active_connections)
            /\ (sent.to = ws /\ pc[ws] = "send") => ws \in Range(active_connections))
    /\ [][\A ws \in Channels :
            /\ (ws \notin Range(active_connections) /\ ws \in Range(active_connections'))
                  => pc[ws] = "accept"
            /\ BatchHanded(ws) => ws \in Range(active_connections')
            /\ (pc[ws] = "send" /\ pc'[ws] = "done")
                  => (ws \in Range(active_connections)
                        /\ ws \notin Range(active_connections'))
            /\ (ws \in Range(active_connections)
                  /\ ws \notin Range(active_connections'))
                  => (pc[ws] = "send" /\ pc'[ws] = "done")]_vars

\* both channels were registered once, channel 1 has disconnected and channel 2
\* is still in the set, its loop asleep
C28_Witness ==
    /\ pc[1] = "done"
    /\ pc[2] = "sleep"
    /\ active_connections = <<2>>

=============================================================================
